---------------------------- MODULE Spec2Model ----------------------------
(* Model of src/main.py: the log pipeline of vfh-vs-nd-playerstage.       *)
(*   read_log          the line filter of one log file                     *)
(*   get_laser_data    the laser table, with its sentinel replacement      *)
(*   get_position_data the position table, with speed and acceleration     *)
(*   get_obstacle_data the obstacle table and the nearest-obstacle distance*)
(*   group_by          itertools.groupby collected into a dict             *)
(*   main              reset_dir("plots"), then process_log_dir(log_dir)   *)
EXTENDS Integers, Sequences, FiniteSets, TLC

VARIABLES
    \* read_log
    log_file, interface, f_pos, yielded, rl_pc,
    \* get_log_data
    laser_lines, position_lines, laser_data, position_data, obstacle_data, gl_pc, exc,
    \* main: the file system, and the frames of clear_dir / reset_dir
    log_dir, dirs, files, files0, dirs0, stack, pc,
    \* process_log_dir
    tasks, value, overtaken, logs_data, plotted, grouped_by_algorithm,
    logs_data_grouped_by_algorithm_and_difficulty

rl_vars == <<log_file, interface, f_pos, yielded, rl_pc>>
gl_vars == <<laser_lines, position_lines, laser_data, position_data, obstacle_data,
             gl_pc, exc>>
fs_vars == <<log_dir, dirs, files, files0, dirs0, stack>>
pl_vars == <<tasks, value, overtaken, logs_data, plotted, grouped_by_algorithm,
             logs_data_grouped_by_algorithm_and_difficulty>>
vars == <<rl_vars, gl_vars, fs_vars, pl_vars, pc>>

(* ---------------------------------------------------------------------- *)
(* Generic helpers                                                         *)
(* ---------------------------------------------------------------------- *)

\* Python's None.
None == "None"

Range(s) == {s[i] : i \in DOMAIN s}

Min(a, b) == IF a <= b THEN a ELSE b

\* All sequences over S of length 0..n.
SeqsUpTo(S, n) == UNION {[1..k -> S] : k \in 0..n}

(* ---------------------------------------------------------------------- *)
(* read_log (src/main.py:39-41)                                            *)
(* A line is a sequence of characters; a token is a maximal run of         *)
(* non-whitespace characters.  The interface names are single characters   *)
(* of the model's alphabet.                                                *)
(* ---------------------------------------------------------------------- *)

MaxLines == 2

\* The index of the interface token: splits[3].
IfaceIndex == 3

Whitespace == {" ", "\n"}
Interfaces == {"laser", "position2d"}

\* str.split(): the maximal runs of non-whitespace characters, in order.
RECURSIVE SplitFrom(_, _, _, _)
SplitFrom(line, i, cur, acc) ==
    IF i > Len(line)
    THEN IF cur = <<>> THEN acc ELSE Append(acc, cur)
    ELSE IF line[i] \in Whitespace
         THEN SplitFrom(line, i + 1, <<>>, IF cur = <<>> THEN acc ELSE Append(acc, cur))
         ELSE SplitFrom(line, i + 1, Append(cur, line[i]), acc)

split(line) == SplitFrom(line, 1, <<>>, <<>>)

\* A mutant of LineSelected: the interface is looked up one token early.
LineSelectedEarly(line, iface) ==
    LET splits == split(line)
    IN  Len(splits) > IfaceIndex - 1 /\ splits[IfaceIndex] = <<iface>>

\* len(splits := line.split()) > 3 and splits[3] == interface  (0-based 3).
LineSelected(line, iface) ==
    LET splits == split(line)
    IN  Len(splits) > IfaceIndex /\ splits[IfaceIndex + 1] = <<iface>>

\* The text of a log line holding the given tokens: single spaces between
\* them and the newline the file iterator keeps.
RECURSIVE Text(_)
Text(tokens) ==
    IF tokens = <<>> THEN <<"\n">>
    ELSE IF Len(tokens) = 1 THEN <<tokens[1], "\n">>
    ELSE <<tokens[1], " ">> \o Text(Tail(tokens))

\* The token lists of the model's log lines: up to IfaceIndex + 1 tokens,
\* each an interface name, and the lists of one token more that start with
\* three laser tokens.
LogTokens ==
    SeqsUpTo(Interfaces, IfaceIndex + 1)
        \cup {[i \in 1..IfaceIndex |-> "laser"] \o t : t \in [1..2 -> Interfaces]}

LogLines == {Text(t) : t \in LogTokens}

InitReadLog ==
    /\ log_file \in SeqsUpTo(LogLines, MaxLines)
    /\ interface \in Interfaces
    /\ f_pos = 0
    /\ yielded = <<>>
    /\ rl_pc = "open"

\* One step of the generator: the next line of f, yielded when selected.
ReadLogNext ==
    /\ rl_pc = "open"
    /\ f_pos < Len(log_file)
    /\ f_pos' = f_pos + 1
    /\ yielded' = IF LineSelected(log_file[f_pos + 1], interface)
                  THEN Append(yielded, log_file[f_pos + 1])
                  ELSE yielded
    /\ UNCHANGED <<log_file, interface, rl_pc>>
    /\ UNCHANGED <<gl_vars, fs_vars, pl_vars, pc>>

\* The file is exhausted: the with block closes it and the generator ends.
ReadLogClose ==
    /\ rl_pc = "open"
    /\ f_pos = Len(log_file)
    /\ rl_pc' = "closed"
    /\ UNCHANGED <<log_file, interface, f_pos, yielded>>
    /\ UNCHANGED <<gl_vars, fs_vars, pl_vars, pc>>

(* ---------------------------------------------------------------------- *)
(* numpy                                                                   *)
(* Numbers are integers.  A quotient is kept as a reduced fraction         *)
(* <<numerator, denominator>>, with <<1, 0>>, <<-1, 0>> and <<0, 0>> for   *)
(* inf, -inf and nan.  A range is a non-negative integer or NaN, the       *)
(* "unknown" range, kept as a value no range takes.                        *)
(* ---------------------------------------------------------------------- *)

NaN == -1

isnan(x) == x = NaN

\* x >= y of two floats: False when either is NaN.
GreaterEqual(x, y) == ~isnan(x) /\ ~isnan(y) /\ x >= y

Abs(x) == IF x < 0 THEN -x ELSE x

RECURSIVE Gcd(_, _)
Gcd(x, y) == IF y = 0 THEN x ELSE Gcd(y, x % y)

\* x / y of two floats: inf or nan on a zero divisor (numpy warns, it does
\* not raise).
Divide(x, y) ==
    IF y = 0
    THEN IF x = 0 THEN <<0, 0>> ELSE IF x > 0 THEN <<1, 0>> ELSE <<-1, 0>>
    ELSE LET g == Gcd(Abs(x), Abs(y))
             sgn == IF y < 0 THEN -1 ELSE 1
         IN  <<(sgn * x) \div g, (sgn * y) \div g>>

\* The float 0.
Zero == <<0, 1>>

\* np.sqrt on the perfect squares the model's velocities produce.
Sqrt(x) == CHOOSE r \in 0..x : r * r = x

\* np.diff(x): out[i] = x[i + 1] - x[i], one entry shorter than x.
diff(x) == [i \in 1..(Len(x) - 1) |-> x[i + 1] - x[i]]

\* np.genfromtxt of the data lines: a 2-D array of one row per line when
\* there are two lines or more; one line is squeezed to a 1-D array and no
\* line gives an empty 1-D array.
genfromtxt(lines) == [ndim |-> IF Len(lines) >= 2 THEN 2 ELSE 1, rows |-> lines]

(* ---------------------------------------------------------------------- *)
(* get_laser_data (src/main.py:44-57)                                      *)
(* A laser line is [time, max_range, ranges]; the stream starts with the   *)
(* header line.  A call returns [exc, table]: the exception raised (None   *)
(* when none) and the table.                                               *)
(* ---------------------------------------------------------------------- *)

Header == "header"

\* A mutant of SentinelReplace: a range equal to max_range is kept.
SentinelReplaceStrict(r, max_range) ==
    [b \in DOMAIN r |-> IF GreaterEqual(r[b], max_range) /\ r[b] # max_range
                         THEN NaN ELSE r[b]]

\* np.where(r >= max_range, np.nan, r)
SentinelReplace(r, max_range) ==
    [b \in DOMAIN r |-> IF GreaterEqual(r[b], max_range) THEN NaN ELSE r[b]]

get_laser_data(lines) ==
    IF lines = <<>> THEN [exc |-> "StopIteration", table |-> None]
    ELSE LET laser_readings == genfromtxt(Tail(lines))
         IN  IF laser_readings.ndim # 2
             THEN [exc |-> "IndexError", table |-> None]
             ELSE LET rows == laser_readings.rows
                      max_range == rows[1].max_range
                  IN  [exc |-> None,
                       table |-> [i \in DOMAIN rows |->
                                    [rows[i] EXCEPT
                                       !.ranges = SentinelReplace(@, max_range)]]]

(* ---------------------------------------------------------------------- *)
(* get_position_data (src/main.py:60-78)                                   *)
(* A position line is [time, vx, vy].  The pose columns and                *)
(* distance_to_target are copied or computed per row and take no part in   *)
(* the row structure; they are left out.                                   *)
(* ---------------------------------------------------------------------- *)

\* A mutant of Acceleration: the 0 is appended instead of prepended.
AccelerationAppended(scalar_speed, time) ==
    LET ds == diff(scalar_speed)
        dt == diff(time)
    IN  [i \in DOMAIN ds |-> Divide(ds[i], dt[i])] \o <<Zero>>

\* a = np.diff(scalar_speed) / np.diff(time); a = np.insert(a, 0, 0)
Acceleration(scalar_speed, time) ==
    LET ds == diff(scalar_speed)
        dt == diff(time)
    IN  <<Zero>> \o [i \in DOMAIN ds |-> Divide(ds[i], dt[i])]

get_position_data(lines) ==
    IF lines = <<>> THEN [exc |-> "StopIteration", table |-> None]
    ELSE LET position_readings == genfromtxt(Tail(lines))
         IN  IF position_readings.ndim # 2
             THEN [exc |-> "IndexError", table |-> None]
             ELSE LET rows == position_readings.rows
                      scalar_speed == [i \in DOMAIN rows |->
                                         Sqrt(rows[i].vx * rows[i].vx + rows[i].vy * rows[i].vy)]
                      time == [i \in DOMAIN rows |-> rows[i].time]
                      a == Acceleration(scalar_speed, time)
                  IN  [exc |-> None,
                       table |-> [i \in DOMAIN rows |->
                                    [time |-> rows[i].time, vx |-> rows[i].vx,
                                     vy |-> rows[i].vy,
                                     scalar_speed |-> scalar_speed[i], a |-> a[i]]]]

(* ---------------------------------------------------------------------- *)
(* get_obstacle_data (src/main.py:81-97)                                   *)
(* obs_x and obs_y of a row are kept as the pair of rows they are computed *)
(* from: [scan, pose], the laser row of the ranges and the position row of *)
(* px, py and pa.  The count of the first laser row is the number of beams *)
(* of every row, as in the logs, so that ranges and angles have the same   *)
(* number of columns.                                                      *)
(* ---------------------------------------------------------------------- *)

\* initial=8 of ranges.min
Initial == 8

\* ranges.min(initial=8, where=~np.isnan(ranges)) of one row: the minimum
\* of 8 and the known ranges.
NearestObstacle(r) ==
    LET known == {r[b] : b \in {c \in DOMAIN r : ~isnan(r[c])}} \cup {Initial}
    IN  CHOOSE d \in known : \A e \in known : d <= e

\* A mutant of Broadcast: arrays of different row counts are cut to the
\* shorter.
BroadcastTruncating(n, m) ==
    [ok |-> TRUE, rows |-> [i \in 1..Min(n, m) |-> [scan |-> i, pose |-> i]]]

\* The rows two arrays of n and of m rows broadcast to, as [scan, pose]
\* index pairs; the shapes do not broadcast when n and m differ and neither
\* is 1.
Broadcast(n, m) ==
    IF n = m THEN [ok |-> TRUE, rows |-> [i \in 1..n |-> [scan |-> i, pose |-> i]]]
    ELSE IF n = 1 THEN [ok |-> TRUE, rows |-> [i \in 1..m |-> [scan |-> 1, pose |-> i]]]
    ELSE IF m = 1 THEN [ok |-> TRUE, rows |-> [i \in 1..n |-> [scan |-> i, pose |-> 1]]]
    ELSE [ok |-> FALSE, rows |-> <<>>]

get_obstacle_data(position, laser) ==
    IF laser = <<>> THEN [exc |-> "KeyError", table |-> None]
    ELSE LET bc == Broadcast(Len(laser), Len(position))
             obs == bc.rows
         IN  IF ~bc.ok THEN [exc |-> "ValueError", table |-> None]
             ELSE LET distance_to_nearest_obstacle ==
                          [i \in DOMAIN laser |-> NearestObstacle(laser[i].ranges)]
                      rows == Min(Len(laser), Len(obs))
                  IN  [exc |-> None,
                       table |-> [i \in 1..rows |->
                                    [time |-> laser[i].time, obs |-> obs[i],
                                     distance_to_nearest_obstacle |->
                                         distance_to_nearest_obstacle[i]]]]

(* ---------------------------------------------------------------------- *)
(* get_log_data (src/main.py:104-114): the three tables of one log, in the *)
(* order the code builds them.  gl_pc is the call being made, or "done";   *)
(* exc is the exception that call raised and get_log_data lets through,    *)
(* None while there is none.                                               *)
(* ---------------------------------------------------------------------- *)

MaxScans == 2
NBeams == 2
MaxSamples == 3
MaxTime == 4

\* max_range of a laser line, and the raw ranges: below 8, between 8 and
\* the larger max_range, and equal to it.
MaxRangeValues == {8, 10}
RangeValues == {3, 9, 10}
VxValues == {0, 3}
VyValues == {0, 4}

LaserLine == [max_range : MaxRangeValues, ranges : [1..NBeams -> RangeValues]]

\* Scan i is stamped with time i.
Stamp(rows) == [i \in DOMAIN rows |->
                  [time |-> i, max_range |-> rows[i].max_range, ranges |-> rows[i].ranges]]

\* The laser streams: the header and up to MaxScans scans, or nothing at
\* all (a log without the interface).
LaserStreams ==
    {<<>>} \cup {<<Header>> \o Stamp(rows) : rows \in SeqsUpTo(LaserLine, MaxScans)}

\* m samples of a robot at rest, one per time unit.
AtRest(m) == <<Header>> \o [i \in 1..m |-> [time |-> i, vx |-> 0, vy |-> 0]]

PositionLine == [time : 1..MaxTime, vx : VxValues, vy : VyValues]

\* The position streams: the header and up to MaxSamples samples, stamped
\* in strictly increasing time.
PositionStreams ==
    {<<>>} \cup {<<Header>> \o rows : rows \in
        {r \in SeqsUpTo(PositionLine, MaxSamples) :
            \A i \in 1..(Len(r) - 1) : r[i].time < r[i + 1].time}}

\* Two scans of a laser of max_range 8.
TwoScans == <<Header>> \o Stamp([i \in 1..2 |-> [max_range |-> 8, ranges |-> [b \in 1..NBeams |-> 3]]])

\* The streams of one log: any laser stream beside as many position
\* samples as scans or one fewer; or two scans beside any position stream.
InitLogData ==
    /\ \/ /\ laser_lines \in LaserStreams
          /\ position_lines \in
                 {AtRest(m) : m \in {k \in (Len(laser_lines) - 2)..(Len(laser_lines) - 1) : k >= 0}}
       \/ /\ laser_lines = TwoScans
          /\ position_lines \in PositionStreams
    /\ laser_data = None
    /\ position_data = None
    /\ obstacle_data = None
    /\ gl_pc = "laser"
    /\ exc = None

GetLaserData ==
    /\ gl_pc = "laser" /\ exc = None
    /\ LET r == get_laser_data(laser_lines)
       IN  /\ laser_data' = r.table
           /\ exc' = r.exc
           /\ gl_pc' = IF r.exc = None THEN "position" ELSE gl_pc
    /\ UNCHANGED <<laser_lines, position_lines, position_data, obstacle_data>>
    /\ UNCHANGED <<rl_vars, fs_vars, pl_vars, pc>>

GetPositionData ==
    /\ gl_pc = "position" /\ exc = None
    /\ LET r == get_position_data(position_lines)
       IN  /\ position_data' = r.table
           /\ exc' = r.exc
           /\ gl_pc' = IF r.exc = None THEN "obstacle" ELSE gl_pc
    /\ UNCHANGED <<laser_lines, position_lines, laser_data, obstacle_data>>
    /\ UNCHANGED <<rl_vars, fs_vars, pl_vars, pc>>

GetObstacleData ==
    /\ gl_pc = "obstacle" /\ exc = None
    /\ LET r == get_obstacle_data(position_data, laser_data)
       IN  /\ obstacle_data' = r.table
           /\ exc' = r.exc
           /\ gl_pc' = IF r.exc = None THEN "done" ELSE gl_pc
    /\ UNCHANGED <<laser_lines, position_lines, laser_data, position_data>>
    /\ UNCHANGED <<rl_vars, fs_vars, pl_vars, pc>>

(* ---------------------------------------------------------------------- *)
(* group_by (src/main.py:35-36)                                            *)
(* A LogData record is [metadata |-> LogMetadata]; its three tables are    *)
(* those of get_log_data above and take no part in the grouping.           *)
(* ---------------------------------------------------------------------- *)

\* itertools.groupby(iterable, key): the runs of consecutive elements of
\* equal key, in order, each as [key, group].
RECURSIVE groupbyFrom(_, _, _, _)
groupbyFrom(iterable, key, i, acc) ==
    IF i > Len(iterable) THEN acc
    ELSE LET k == iterable[i].metadata[key]
             n == Len(acc)
         IN  IF n > 0 /\ acc[n].key = k
             THEN groupbyFrom(iterable, key, i + 1,
                              [acc EXCEPT ![n].group = Append(@, iterable[i])])
             ELSE groupbyFrom(iterable, key, i + 1,
                              Append(acc, [key |-> k, group |-> <<iterable[i]>>]))

groupby(iterable, key) == groupbyFrom(iterable, key, 1, <<>>)

\* {key: list(group) for key, group in runs}: a later run of a key replaces
\* an earlier one.
DictOf(runs) ==
    [k \in {runs[i].key : i \in DOMAIN runs} |->
        LET last == CHOOSE i \in DOMAIN runs :
                        /\ runs[i].key = k
                        /\ \A j \in DOMAIN runs : runs[j].key = k => j <= i
        IN  runs[last].group]

group_by(iterable, key) == DictOf(groupby(iterable, key))

(* ---------------------------------------------------------------------- *)
(* The file system.  A name is the sequence of its dot-separated parts     *)
(* (<<"vfh", "old">> is vfh.old), a path the sequence of its names.        *)
(* ---------------------------------------------------------------------- *)

MaxLogs == 2
MaxRecords == 3

\* Path.stem: the name without its last suffix.
stem(name) == IF Len(name) > 1 THEN SubSeq(name, 1, Len(name) - 1) ELSE name

\* The names glob("*.log") matches.
IsLog(name) == Len(name) > 1 /\ name[Len(name)] = "log"

name(path) == path[Len(path)]
parent(path) == SubSeq(path, 1, Len(path) - 1)

\* Path.iterdir() of directory d: its entries, in no particular order.
iterdir(d, ds, fs) == {p \in ds \cup fs : Len(p) > 0 /\ parent(p) = d}

\* path lies under (or is) directory d.
Under(path, d) == Len(path) >= Len(d) /\ SubSeq(path, 1, Len(d)) = d

Plots == <<<<"plots">>>>
LogDirs == {<<<<"logs">>>>, Plots, Plots \o <<<<"logs">>>>}
AlgorithmFolders == {<<"vfh">>, <<"nd">>, <<"vfh", "old">>}
DifficultyFolders == {<<"easy">>, <<"realistic">>}
LogNames == [i \in 1..4 |-> <<<<"1", "log">>, <<"2", "log">>, <<"3", "log">>, <<"4", "log">>>>[i]]

\* The tree log_dir/algorithm/difficulty/*.log of the given folders, with n
\* logs in every difficulty folder; Stray is a file kept beside the
\* algorithm folders.
LogTreeDirs(ld, algs, diffs) ==
    {SubSeq(ld, 1, k) : k \in 1..Len(ld)}
        \cup {ld \o <<a>> : a \in algs}
        \cup {ld \o <<a, d>> : a \in algs, d \in diffs}

LogTreeFiles(ld, algs, diffs, n) ==
    {ld \o <<a, d, LogNames[i]>> : a \in algs, d \in diffs, i \in 1..n}

Stray(ld) == ld \o <<<<"README">>>>

\* What an earlier run left in plots: a figure, and a folder holding one.
OldPlotDirs == {Plots, Plots \o <<<<"figs">>>>}
OldPlotFiles == {Plots \o <<<<"time", "png">>>>, Plots \o <<<<"figs">>, <<"1", "png">>>>}

(* ---------------------------------------------------------------------- *)
(* clear_dir / reset_dir (src/main.py:117-130)                             *)
(* stack holds the running clear_dir calls, innermost last: [dir, todo],   *)
(* todo the entries iterdir has still to yield.                            *)
(* ---------------------------------------------------------------------- *)

\* reset_dir("plots"), the first statement of main.
ResetDir ==
    /\ pc = "reset_dir"
    /\ IF Plots \in dirs
       THEN /\ stack' = <<[dir |-> Plots, todo |-> iterdir(Plots, dirs, files)]>>
            /\ pc' = "clear_dir"
            /\ UNCHANGED dirs
       ELSE /\ dirs' = dirs \cup {Plots}
            /\ pc' = "process_log_dir"
            /\ UNCHANGED stack
    /\ UNCHANGED <<log_dir, files, files0, dirs0>>
    /\ UNCHANGED <<rl_vars, gl_vars, pl_vars>>

\* sub_path is a file: sub_path.unlink()
ClearDirUnlink ==
    /\ pc = "clear_dir"
    /\ \E sub_path \in stack[Len(stack)].todo :
         /\ sub_path \notin dirs
         /\ files' = files \ {sub_path}
         /\ stack' = [stack EXCEPT ![Len(stack)].todo = @ \ {sub_path}]
    /\ UNCHANGED <<log_dir, dirs, files0, dirs0, pc>>
    /\ UNCHANGED <<rl_vars, gl_vars, pl_vars>>

\* sub_path is a directory: reset_dir(sub_path), which exists and is cleared.
ClearDirRecurse ==
    /\ pc = "clear_dir"
    /\ \E sub_path \in stack[Len(stack)].todo :
         /\ sub_path \in dirs
         /\ stack' = Append([stack EXCEPT ![Len(stack)].todo = @ \ {sub_path}],
                            [dir |-> sub_path, todo |-> iterdir(sub_path, dirs, files)])
    /\ UNCHANGED <<log_dir, dirs, files, files0, dirs0, pc>>
    /\ UNCHANGED <<rl_vars, gl_vars, pl_vars>>

\* iterdir is exhausted: clear_dir returns, to its caller or to main.
ClearDirReturn ==
    /\ pc = "clear_dir"
    /\ stack[Len(stack)].todo = {}
    /\ stack' = SubSeq(stack, 1, Len(stack) - 1)
    /\ pc' = IF Len(stack) = 1 THEN "process_log_dir" ELSE "clear_dir"
    /\ UNCHANGED <<log_dir, dirs, files, files0, dirs0>>
    /\ UNCHANGED <<rl_vars, gl_vars, pl_vars>>

(* ---------------------------------------------------------------------- *)
(* get_logs_metadata (src/main.py:17-32)                                   *)
(* ---------------------------------------------------------------------- *)

\* The orders a directory listing may come in.
Orders(S) == {f \in [1..Cardinality(S) -> S] : \A i, j \in DOMAIN f : f[i] = f[j] => i = j}

RECURSIVE Concat(_)
Concat(ss) == IF ss = <<>> THEN <<>> ELSE ss[1] \o Concat(Tail(ss))

\* glob("*.log") of a difficulty folder, as enumerate(..., start=1) numbers
\* it: log i is the i-th file the listing yields.
GlobLogs(difficulty_path, fs) ==
    LET logs == {f \in fs : parent(f) = difficulty_path /\ IsLog(name(f))}
    IN  [i \in 1..Cardinality(logs) |-> difficulty_path \o <<LogNames[i]>>]

\* The metadata of one difficulty folder.
DifficultyMetadata(algorithm_path, difficulty_path, fs) ==
    LET logs == GlobLogs(difficulty_path, fs)
    IN  [i \in DOMAIN logs |->
            [index |-> i, path |-> logs[i],
             algorithm |-> stem(name(algorithm_path)),
             difficulty |-> stem(name(difficulty_path))]]

\* algorithm_path.iterdir() of a file raises NotADirectoryError: an entry
\* of log_dir that is a file.  (glob of a file yields nothing.)
NotADirectory(ld, ds, fs) == \E p \in fs : parent(p) = ld

\* Every list the generator may produce: the algorithm folders in any
\* order, the difficulty folders of each in any order.
get_logs_metadata(ld, ds, fs) ==
    LET algorithm_paths == iterdir(ld, ds, fs)
        DifficultyOrders == UNION {Orders(iterdir(a, ds, fs)) : a \in algorithm_paths}
    IN  {Concat([i \in DOMAIN ao |->
                    Concat([j \in DOMAIN do[ao[i]] |->
                               DifficultyMetadata(ao[i], do[ao[i]][j], fs)])]) :
            ao \in Orders(algorithm_paths),
            do \in {f \in [algorithm_paths -> DifficultyOrders] :
                       \A a \in algorithm_paths : f[a] \in Orders(iterdir(a, ds, fs))}}

(* ---------------------------------------------------------------------- *)
(* process_log_dir (src/main.py:133-144)                                   *)
(* Pool.map(f, iterable, chunksize=3) lists the iterable, hands the        *)
(* workers chunks of 3 tasks, and stores each finished chunk in the slots  *)
(* of its tasks; it returns when every slot is filled.                     *)
(* ---------------------------------------------------------------------- *)

chunksize == 3

\* The record get_log_data returns for a log (lines 109-114).
LogData(log_metadata) == [metadata |-> log_metadata]

Chunks(n) == 1..((n + chunksize - 1) \div chunksize)
ChunkTasks(c, n) == {i \in 1..n : (i - 1) \div chunksize + 1 = c}

Empty == [done |-> FALSE, result |-> <<>>]
Filled(r) == [done |-> TRUE, result |-> r]

\* A mutant of SetChunk: a finished chunk is stored in the first free slots,
\* in completion order.
SetChunkInCompletionOrder(val, c, ts) ==
    LET free == Cardinality({i \in DOMAIN val : val[i].done})
        first == (c - 1) * chunksize
        size == Cardinality(ChunkTasks(c, Len(val)))
    IN  [i \in DOMAIN val |->
            IF i \in (free + 1)..(free + size)
            THEN Filled(LogData(ts[first + i - free]))
            ELSE val[i]]

\* The result of chunk c, stored where its tasks are.
SetChunk(val, c, ts) ==
    [i \in DOMAIN val |->
        IF i \in ChunkTasks(c, Len(val)) THEN Filled(LogData(ts[i])) ELSE val[i]]

\* The chunks no worker has finished.
Pending(val) == {c \in Chunks(Len(val)) : \E i \in ChunkTasks(c, Len(val)) : ~val[i].done}

\* p.map lists get_logs_metadata(log_dir): the discovery.
MapStart ==
    /\ pc = "process_log_dir"
    /\ IF log_dir \notin dirs \/ NotADirectory(log_dir, dirs, files)
       THEN /\ pc' = "raised"
            /\ UNCHANGED <<tasks, value>>
       ELSE /\ tasks' \in get_logs_metadata(log_dir, dirs, files)
            /\ value' = [i \in DOMAIN tasks' |-> Empty]
            /\ pc' = "map_get_log_data"
    /\ UNCHANGED <<overtaken, logs_data, plotted, grouped_by_algorithm,
                   logs_data_grouped_by_algorithm_and_difficulty>>
    /\ UNCHANGED <<rl_vars, gl_vars, fs_vars>>

\* A worker finishes a chunk of get_log_data calls, whichever it is;
\* overtaken records that a chunk of earlier tasks was still running.
WorkerGetLogData ==
    /\ pc = "map_get_log_data"
    /\ \E c \in Pending(value) :
         /\ value' = SetChunk(value, c, tasks)
         /\ overtaken' = (overtaken \/ \E b \in Pending(value) : b < c)
    /\ UNCHANGED <<pc, tasks, logs_data, plotted, grouped_by_algorithm,
                   logs_data_grouped_by_algorithm_and_difficulty>>
    /\ UNCHANGED <<rl_vars, gl_vars, fs_vars>>

\* get_log_data raises in a worker (a log with fewer than two scans, say):
\* map re-raises it in main.
WorkerRaises ==
    /\ pc = "map_get_log_data"
    /\ Pending(value) # {}
    /\ pc' = "raised"
    /\ UNCHANGED <<tasks, value, overtaken, logs_data, plotted, grouped_by_algorithm,
                   logs_data_grouped_by_algorithm_and_difficulty>>
    /\ UNCHANGED <<rl_vars, gl_vars, fs_vars>>

\* Every chunk is in: logs_data = p.map(get_log_data, ...)
MapReturn ==
    /\ pc = "map_get_log_data"
    /\ Pending(value) = {}
    /\ logs_data' = [i \in DOMAIN value |-> value[i].result]
    /\ plotted' = {}
    /\ pc' = "map_plot_log_data"
    /\ UNCHANGED <<tasks, value, overtaken, grouped_by_algorithm,
                   logs_data_grouped_by_algorithm_and_difficulty>>
    /\ UNCHANGED <<rl_vars, gl_vars, fs_vars>>

\* A worker finishes a chunk of plot_log_data calls.  The plots module is
\* not part of src/main.py; what it writes is not modelled.
WorkerPlotLogData ==
    /\ pc = "map_plot_log_data"
    /\ \E c \in Chunks(Len(logs_data)) \ plotted : plotted' = plotted \cup {c}
    /\ UNCHANGED <<pc, tasks, value, overtaken, logs_data, grouped_by_algorithm,
                   logs_data_grouped_by_algorithm_and_difficulty>>
    /\ UNCHANGED <<rl_vars, gl_vars, fs_vars>>

\* p.map(plot_log_data, ...) returns and the with block ends the pool.
PlotReturn ==
    /\ pc = "map_plot_log_data"
    /\ plotted = Chunks(Len(logs_data))
    /\ pc' = "group_by_algorithm"
    /\ UNCHANGED <<tasks, value, overtaken, logs_data, plotted, grouped_by_algorithm,
                   logs_data_grouped_by_algorithm_and_difficulty>>
    /\ UNCHANGED <<rl_vars, gl_vars, fs_vars>>

\* grouped_by_algorithm = group_by(logs_data, ...)  (line 138)
GroupByAlgorithm ==
    /\ pc = "group_by_algorithm"
    /\ grouped_by_algorithm' = group_by(logs_data, "algorithm")
    /\ pc' = "group_by_difficulty"
    /\ UNCHANGED <<tasks, value, overtaken, logs_data, plotted,
                   logs_data_grouped_by_algorithm_and_difficulty>>
    /\ UNCHANGED <<rl_vars, gl_vars, fs_vars>>

\* The dict comprehension of lines 139-142, handed to plot_time_comparison.
GroupByDifficulty ==
    /\ pc = "group_by_difficulty"
    /\ logs_data_grouped_by_algorithm_and_difficulty' =
           [algorithm \in DOMAIN grouped_by_algorithm |->
               group_by(grouped_by_algorithm[algorithm], "difficulty")]
    /\ pc' = "done"
    /\ UNCHANGED <<tasks, value, overtaken, logs_data, plotted, grouped_by_algorithm>>
    /\ UNCHANGED <<rl_vars, gl_vars, fs_vars>>

(* ---------------------------------------------------------------------- *)
(* Specifications                                                          *)
(* ---------------------------------------------------------------------- *)

IdleReadLog ==
    /\ log_file = <<>> /\ interface = "laser" /\ f_pos = 0
    /\ yielded = <<>> /\ rl_pc = "closed"

IdleLogData ==
    /\ laser_lines = <<>> /\ position_lines = <<>> /\ laser_data = None
    /\ position_data = None /\ obstacle_data = None /\ gl_pc = "idle" /\ exc = None

IdleFiles ==
    /\ log_dir = <<<<"logs">>>> /\ dirs = {} /\ files = {}
    /\ files0 = {} /\ dirs0 = {} /\ stack = <<>>

IdlePool ==
    /\ tasks = <<>> /\ value = <<>> /\ overtaken = FALSE /\ plotted = {}
    /\ grouped_by_algorithm = <<>>
    /\ logs_data_grouped_by_algorithm_and_difficulty = <<>>

\* main(log_dir): a log tree, and what plots holds before the run.  A
\* log_dir inside plots means plots exists, and then it holds the log tree
\* alone: no figures when it is plots itself, and no stray file.
InitMain ==
    /\ log_dir \in LogDirs
    /\ \E algs \in SUBSET AlgorithmFolders, diffs \in SUBSET DifficultyFolders \ {{}},
          n \in 1..MaxLogs, plots \in {"absent", "empty", "old"}, stray \in BOOLEAN :
         /\ plots = "absent" => ~Under(log_dir, Plots)
         /\ plots = "old" => log_dir # Plots
         /\ stray => ~Under(log_dir, Plots)
         /\ dirs = LogTreeDirs(log_dir, algs, diffs)
                     \cup (IF plots = "absent" THEN {}
                           ELSE IF plots = "empty" THEN {Plots} ELSE OldPlotDirs)
         /\ files = LogTreeFiles(log_dir, algs, diffs, n)
                     \cup (IF plots = "old" THEN OldPlotFiles ELSE {})
                     \cup (IF stray THEN {Stray(log_dir)} ELSE {})
    /\ files0 = files
    /\ dirs0 = dirs
    /\ stack = <<>>
    /\ logs_data = <<>>
    /\ IdlePool
    /\ pc = "reset_dir"

Init == InitMain /\ IdleReadLog /\ IdleLogData

Next ==
    \/ ResetDir
    \/ ClearDirUnlink
    \/ ClearDirRecurse
    \/ ClearDirReturn
    \/ MapStart
    \/ WorkerGetLogData
    \/ WorkerRaises
    \/ MapReturn
    \/ WorkerPlotLogData
    \/ PlotReturn
    \/ GroupByAlgorithm
    \/ GroupByDifficulty

Spec == Init /\ [][Next]_vars

\* read_log alone, over every log file of the model.
InitLines == InitReadLog /\ IdleLogData /\ IdleFiles /\ IdlePool /\ logs_data = <<>> /\ pc = "idle"

NextLines == ReadLogNext \/ ReadLogClose

SpecReadLog == InitLines /\ [][NextLines]_vars

\* get_log_data alone, over every pair of streams of the model.
InitTables == InitLogData /\ IdleReadLog /\ IdleFiles /\ IdlePool /\ logs_data = <<>> /\ pc = "idle"

NextTables == GetLaserData \/ GetPositionData \/ GetObstacleData

SpecLogData == InitTables /\ [][NextTables]_vars

\* The grouping of lines 138-142 alone, over every list of records.
Algorithms == {<<"vfh">>, <<"nd">>}
Difficulties == {<<"easy">>, <<"realistic">>}

Records(n) ==
    {[i \in 1..n |-> LogData([index |-> i, path |-> i, algorithm |-> k[i][1],
                              difficulty |-> k[i][2]])] :
        k \in [1..n -> Algorithms \X Difficulties]}

InitGroupBy ==
    /\ logs_data \in UNION {Records(n) : n \in 0..MaxRecords}
    /\ IdlePool
    /\ IdleReadLog /\ IdleLogData /\ IdleFiles
    /\ pc = "group_by_algorithm"

NextGroupBy == GroupByAlgorithm \/ GroupByDifficulty

SpecGroupBy == InitGroupBy /\ [][NextGroupBy]_vars

(* ---------------------------------------------------------------------- *)
(* Properties                                                              *)
(* ---------------------------------------------------------------------- *)

\* The (algorithm, difficulty, position) places of a nested grouping.
Places(g) ==
    UNION {UNION {{<<a, d, j>> : j \in DOMAIN g[a][d]} : d \in DOMAIN g[a]} : a \in DOMAIN g}

\* The places of g that hold record r.
PlacesOf(g, r) == {pl \in Places(g) : g[pl[1]][pl[2]][pl[3]] = r}

\* C1: grouping any sequence of LogData records by algorithm and then by
\* difficulty partitions it: every input record is in exactly one
\* (algorithm, difficulty) bucket, and every record of a bucket has the
\* bucket's algorithm and difficulty.
C1_GroupingPartitions ==
    pc = "done" =>
        LET g == logs_data_grouped_by_algorithm_and_difficulty
        IN  /\ \A i \in DOMAIN logs_data : Cardinality(PlacesOf(g, logs_data[i])) = 1
            /\ \A pl \in Places(g) :
                 /\ g[pl[1]][pl[2]][pl[3]].metadata.algorithm = pl[1]
                 /\ g[pl[1]][pl[2]][pl[3]].metadata.difficulty = pl[2]
                 /\ g[pl[1]][pl[2]][pl[3]] \in Range(logs_data)

\* get_obstacle_data has returned a table.
ObstacleBuilt == gl_pc = "done"
\* get_position_data has returned a table.
PositionBuilt == gl_pc \in {"obstacle", "done"}
\* get_laser_data has returned a table.
LaserBuilt == gl_pc \in {"position", "obstacle", "done"}

\* The known ranges of a scan of the laser table.
Known(scan) == {scan.ranges[b] : b \in {c \in DOMAIN scan.ranges : ~isnan(scan.ranges[c])}}

\* C2: for every scan with at least one known range,
\* distance_to_nearest_obstacle is the minimum of the scan's known ranges,
\* whatever the laser's max_range.
C2_NearestIsMinKnown ==
    ObstacleBuilt =>
        \A i \in DOMAIN obstacle_data :
            Known(laser_data[i]) # {} =>
                /\ obstacle_data[i].distance_to_nearest_obstacle \in Known(laser_data[i])
                /\ \A r \in Known(laser_data[i]) :
                       obstacle_data[i].distance_to_nearest_obstacle <= r

\* C3: for every scan whose ranges are all unknown,
\* distance_to_nearest_obstacle is the max_range recorded in the laser
\* table, and never NaN.
C3_FallbackIsMaxRange ==
    ObstacleBuilt =>
        \A i \in DOMAIN obstacle_data :
            Known(laser_data[i]) = {} =>
                /\ ~isnan(obstacle_data[i].distance_to_nearest_obstacle)
                /\ \E j \in DOMAIN laser_data :
                       obstacle_data[i].distance_to_nearest_obstacle = laser_data[j].max_range

\* C4: in the laser table a range is unknown exactly when the raw range is
\* greater than or equal to the max_range of the first row, and is the raw
\* range otherwise; no stored range is a number >= that max_range.
C4_SentinelReplacement ==
    LaserBuilt =>
        /\ Len(laser_data) = Len(laser_lines) - 1
        /\ \A i \in DOMAIN laser_data : \A b \in 1..NBeams :
             LET raw == laser_lines[i + 1].ranges[b]
                 stored == laser_data[i].ranges[b]
                 max_range == laser_lines[2].max_range
             IN  /\ isnan(stored) <=> raw >= max_range
                 /\ raw < max_range => stored = raw
                 /\ isnan(stored) \/ stored < max_range

\* A range equal to the first row's max_range is made unknown, and a later
\* row that records a smaller max_range keeps a range below the first
\* row's.
C4_Witness ==
    /\ LaserBuilt
    /\ \E i \in DOMAIN laser_data : \E b \in 1..NBeams :
         /\ laser_lines[i + 1].ranges[b] = laser_lines[2].max_range
         /\ isnan(laser_data[i].ranges[b])
    /\ \E i \in DOMAIN laser_data : \E b \in 1..NBeams :
         /\ laser_lines[i + 1].ranges[b] >= laser_lines[i + 1].max_range
         /\ laser_data[i].ranges[b] = laser_lines[i + 1].ranges[b]

\* get_obstacle_data has been called and has returned or raised.
ObstacleCalled == gl_pc = "done" \/ (gl_pc = "obstacle" /\ exc # None)

C6_EmptyStreamGivesEmptyTable ==
    /\ (ObstacleCalled /\ Len(laser_data) = 0) => (exc = None /\ Len(obstacle_data) = 0)
    /\ (laser_lines = <<Header>> /\ (gl_pc # "laser" \/ exc # None)) =>
           (exc = None /\ Len(laser_data) = 0)
    /\ (position_lines = <<Header>> /\ (gl_pc \notin {"laser", "position"}
                                         \/ (gl_pc = "position" /\ exc # None))) =>
           (exc = None /\ Len(position_data) = 0)

\* The tokens a log line of the model was written from.
TokensOf(line) == CHOOSE t \in LogTokens : Text(t) = line

\* The line has at least 4 tokens and its 4th is the interface name.
HasInterface(line, iface) == Len(TokensOf(line)) >= 4 /\ TokensOf(line)[4] = iface

\* C7: read_log yields exactly the lines, in file order, that have at least
\* 4 whitespace-separated tokens and whose 4th token is the interface name:
\* at every step for the lines read so far, and the generator ends only
\* when the whole file is read.
C7_ReadLogSubsequence ==
    /\ yielded = SelectSeq(SubSeq(log_file, 1, f_pos), LAMBDA l : HasInterface(l, interface))
    /\ rl_pc = "closed" => f_pos = Len(log_file)

\* A short line is skipped and the line after it is yielded.
C7_Witness ==
    /\ rl_pc = "closed"
    /\ Len(log_file) = 2
    /\ Len(TokensOf(log_file[1])) = 3
    /\ TokensOf(log_file[1])[3] = interface
    /\ yielded = <<log_file[2]>>

\* C8: a position table built from n >= 2 data lines has n rows in source
\* order, a[0] = 0, and a[i] = (scalar_speed[i] - scalar_speed[i-1]) /
\* (time[i] - time[i-1]) for the rows after (fractions compared by cross
\* multiplication).
C8_Acceleration ==
    PositionBuilt =>
        LET n == Len(position_lines) - 1
            t == position_data
        IN  /\ n >= 2
            /\ Len(t) = n
            /\ \A i \in 1..n :
                 /\ t[i].time = position_lines[i + 1].time
                 /\ t[i].vx = position_lines[i + 1].vx
                 /\ t[i].vy = position_lines[i + 1].vy
                 /\ t[i].scalar_speed >= 0
                 /\ t[i].scalar_speed * t[i].scalar_speed = t[i].vx * t[i].vx + t[i].vy * t[i].vy
            /\ t[1].a = <<0, 1>>
            /\ \A i \in 2..n :
                 /\ t[i].a[2] > 0
                 /\ t[i].a[1] * (t[i].time - t[i - 1].time)
                        = (t[i].scalar_speed - t[i - 1].scalar_speed) * t[i].a[2]

\* Three samples: the robot speeds up, by a fraction of a unit per unit of
\* time, and then slows down.
C8_Witness ==
    /\ PositionBuilt
    /\ Len(position_data) = 3
    /\ position_data[2].a = <<5, 2>>
    /\ position_data[3].a[1] < 0

\* The files and directories under log_dir.
LogTree(ps) == {p \in ps : Under(p, log_dir)}

\* C9: no step of main(log_dir) deletes, creates or modifies a file or a
\* directory under log_dir, wherever log_dir lies.
C9_LogDirReadOnly ==
    /\ LogTree(files) = LogTree(files0)
    /\ LogTree(dirs) = LogTree(dirs0)

\* The algorithm and the difficulty folder of a discovered log.
AlgorithmFolder(md) == parent(parent(md.path))
DifficultyFolder(md) == parent(md.path)

\* The logs on disk: log_dir/algorithm/difficulty/*.log.
LogsOnDisk == {f \in files : Len(f) = Len(log_dir) + 3 /\ Under(f, log_dir) /\ IsLog(name(f))}

\* Distinct algorithm folders have distinct stems, and so have the distinct
\* difficulty folders of one algorithm.
DistinctStems ==
    \A p, q \in dirs :
        (p # q /\ parent(p) = parent(q) /\ Under(p, log_dir)
            /\ Len(p) \in {Len(log_dir) + 1, Len(log_dir) + 2})
        => stem(name(p)) # stem(name(q))

\* C10: whatever order the workers finish in, logs_data holds one record
\* per discovered log in discovery order, the logs of a difficulty folder
\* contiguous inside the logs of an algorithm folder; so with distinct
\* stems the nested grouping holds every discovered log exactly once.
C10_PoolKeepsDiscoveryOrder ==
    pc = "done" =>
        LET g == logs_data_grouped_by_algorithm_and_difficulty
        IN  /\ Len(logs_data) = Len(tasks)
            /\ \A i \in DOMAIN tasks : logs_data[i].metadata = tasks[i]
            /\ {tasks[i].path : i \in DOMAIN tasks} = LogsOnDisk
            /\ \A i, j \in DOMAIN tasks : tasks[i].path = tasks[j].path => i = j
            /\ \A i, j, k \in DOMAIN tasks : (i < j /\ j < k) =>
                 /\ AlgorithmFolder(tasks[i]) = AlgorithmFolder(tasks[k])
                        => AlgorithmFolder(tasks[j]) = AlgorithmFolder(tasks[i])
                 /\ DifficultyFolder(tasks[i]) = DifficultyFolder(tasks[k])
                        => DifficultyFolder(tasks[j]) = DifficultyFolder(tasks[i])
            /\ DistinctStems =>
                 \A i \in DOMAIN tasks : Cardinality(PlacesOf(g, LogData(tasks[i]))) = 1

\* Logs of two algorithms and two difficulties, in more than one chunk,
\* finished out of order, and grouped.
C10_Witness ==
    /\ pc = "done"
    /\ overtaken
    /\ DistinctStems
    /\ Len(tasks) > chunksize
    /\ Cardinality(DOMAIN logs_data_grouped_by_algorithm_and_difficulty) = 2
    /\ \A a \in DOMAIN logs_data_grouped_by_algorithm_and_difficulty :
           Cardinality(DOMAIN logs_data_grouped_by_algorithm_and_difficulty[a]) = 2

=============================================================================
